---- MODULE Spec2Model ----
(***************************************************************************)
(* datacubenci/sync/fixes.py: repairing mismatches between the dataset     *)
(* index and the filesystem.  The index (DatasetPathIndex) and the         *)
(* filesystem are the shared state; every caller of the module is a        *)
(* process that is either inside fix_mismatches or inside one of the       *)
(* singledispatch functions it was asked to run directly.                  *)
(***************************************************************************)
EXTENDS Integers, FiniteSets, Sequences, TLC

(* ------------------------------ bounds --------------------------------- *)

\* the mismatch iterable yields at most this many mismatches in one run
MaxMismatches == 2

\* default of the min_trash_age_hours parameter
DefaultMinTrashAgeHours == 72

(* --------------------------- value domains ----------------------------- *)

Procs == {1, 2}

\* the callers that take steps under Spec (a single orchestrator)
Runners == {1}

Datasets == {"d1", "d2"}

Uris == {"file:///data/a", "file:///data/b"}

Kinds == {"DatasetNotIndexed", "ArchivedDatasetOnDisk",
          "LocationNotIndexed", "LocationMissingOnDisk"}

Mismatches == [kind : Kinds, dataset : Datasets, uri : Uris]

NoMismatch == [kind |-> "none", dataset |-> "none", uri |-> "none"]

\* dataset.archived_time, in hours
ArchivedTime(d) == IF d = "d1" THEN 0 ELSE 1

\* the readings datetime.utcnow() can give, in hours
ClockReadings == {1, 72, 73}

MinAges == {DefaultMinTrashAgeHours}

Absent == "absent"

Dir == "dir"

\* file contents: what is stored at a dataset's base path or in the trash
Contents == {"bytes-a", "bytes-b", "bytes-old"}

TrashRoot == "/data/.trash"

Paths == {"/data/a", "/data/b", "/data/.trash/a", "/data/.trash/b", TrashRoot}

(* ------------------------ external collaborators ----------------------- *)

\* datacube.utils.uri_to_local_path: strips the file:// scheme
uri_to_local_path(u) == IF u = "file:///data/a" THEN "/data/a" ELSE "/data/b"

\* paths.get_dataset_paths(local_path)[0]: the base path of the dataset
get_dataset_paths(l) == l

\* paths.get_trash_path(base_path): the same path under the trash root
get_trash_path(b) == IF b = "/data/a" THEN "/data/.trash/a" ELSE "/data/.trash/b"

\* trash_path.parent
parent(t) == TrashRoot

\* local_path.exists()
exists(f, l) == f[l] # Absent

\* DatasetPathIndex.add_dataset(dataset, uri)
add_dataset(idx, d, u) ==
    [datasets |-> idx.datasets \cup {d}, locations |-> idx.locations \cup {<<d, u>>}]

\* DatasetPathIndex.add_location(dataset, uri)
add_location(idx, d, u) ==
    [idx EXCEPT !.locations = @ \cup {<<d, u>>}]

\* DatasetPathIndex.remove_location(dataset, uri)
remove_location(idx, d, u) ==
    [idx EXCEPT !.locations = @ \ {<<d, u>>}]

\* os.makedirs(str(trash_path.parent))
makedirs(f, dir) == [f EXCEPT ![dir] = Dir]

\* os.rename(str(base_path), str(trash_path)) when it succeeds
rename(f, src, dst) == [f EXCEPT ![dst] = f[src], ![src] = Absent]

(* ------------------- the code's decisions and effects ------------------ *)

\* number of positional arguments do_trash_missing's implementations require
TrashMissingParams == 2

\* number of positional arguments fix_mismatches passes to do_trash_missing
TrashMissingCallArgs == 1

\* a Python call binds when every required positional parameter gets a value
CallBinds(passed, required) == passed = required

\* variant of ConfigConflict that tests the wrong pair of flags
ConfigConflictWrongFlag(a) == a.index_missing /\ a.trash_archived

\* `if index_missing and trash_missing: raise RuntimeError(...)`
ConfigConflict(a) == a.index_missing /\ a.trash_missing

\* variant of UpdateLocationsEnabled for a loop that leaves the reconciliation out
UpdateLocationsSkipped(a) == FALSE

\* `if update_locations:`
UpdateLocationsEnabled(a) == a.update_locations

\* variant of TrashArchivedEnabled for a loop that retires archived data unasked
TrashArchivedAlways(a) == TRUE

\* `if trash_archived:`
TrashArchivedEnabled(a) == a.trash_archived

\* variant of TooYoung that also skips a dataset archived exactly at the threshold
TooYoungInclusive(m, t, h) == ArchivedTime(m.dataset) >= t - h

\* `mismatch.dataset.archived_time > (datetime.utcnow() - timedelta(hours=min_age_hours))`
TooYoung(m, t, h) == ArchivedTime(m.dataset) > t - h

\* variant of IndexMissingRegistered with an implementation for unindexed
\* locations as well
IndexMissingRegisteredForLocations(m) ==
    m.kind \in {"DatasetNotIndexed", "LocationNotIndexed"}

\* kinds do_index_missing has a registered implementation for
IndexMissingRegistered(m) == m.kind = "DatasetNotIndexed"

\* kinds do_update_locations has a registered implementation for
UpdateLocationsRegistered(m) == m.kind \in {"LocationMissingOnDisk", "LocationNotIndexed"}

\* kinds do_trash_archived has a registered implementation for
TrashArchivedRegistered(m) == m.kind = "ArchivedDatasetOnDisk"

\* kinds do_trash_missing has a registered implementation for
TrashMissingRegistered(m) == m.kind = "DatasetNotIndexed"

\* variant of DoIndexMissing that records the location without the dataset
DoIndexMissingLocationOnly(m, idx) ==
    IF IndexMissingRegistered(m) THEN add_location(idx, m.dataset, m.uri) ELSE idx

\* the index after do_index_missing(mismatch, index) returns
DoIndexMissing(m, idx) ==
    IF IndexMissingRegistered(m) THEN add_dataset(idx, m.dataset, m.uri) ELSE idx

\* variant of DoUpdateLocations whose default implementation adds the location
DoUpdateLocationsNoDefault(m, idx) ==
    IF m.kind = "LocationMissingOnDisk" THEN remove_location(idx, m.dataset, m.uri)
    ELSE add_location(idx, m.dataset, m.uri)

\* variant of DoUpdateLocations with the two registrations exchanged
DoUpdateLocationsSwapped(m, idx) ==
    IF m.kind = "LocationMissingOnDisk" THEN add_location(idx, m.dataset, m.uri)
    ELSE IF m.kind = "LocationNotIndexed" THEN remove_location(idx, m.dataset, m.uri)
    ELSE idx

\* the index after do_update_locations(mismatch, index) returns
DoUpdateLocations(m, idx) ==
    IF m.kind = "LocationMissingOnDisk" THEN remove_location(idx, m.dataset, m.uri)
    ELSE IF m.kind = "LocationNotIndexed" THEN add_location(idx, m.dataset, m.uri)
    ELSE idx

\* the index method a registered implementation calls, with its arguments
IndexCall(m) ==
    [op |-> IF m.kind = "DatasetNotIndexed" THEN "add_dataset"
            ELSE IF m.kind = "LocationNotIndexed" THEN "add_location"
            ELSE "remove_location",
     dataset |-> m.dataset, uri |-> m.uri]

\* variant of LocalPathMissing for code without the existence check
LocalPathMissingNever(f, m) == FALSE

\* `if not local_path.exists(): ... return` in do_trash_archived / do_trash_missing
LocalPathMissing(f, m) == ~exists(f, uri_to_local_path(m.uri))

\* base_path of the mismatch's dataset, as _trash resolves it
BasePath(m) == get_dataset_paths(uri_to_local_path(m.uri))

\* trash_path of the mismatch's dataset, as _trash resolves it
TrashPath(m) == get_trash_path(BasePath(m))

\* variant of Renamed that copies to the trash and keeps the source
RenamedKeepingSource(f, m) == [f EXCEPT ![TrashPath(m)] = f[BasePath(m)]]

\* the filesystem after `os.rename(str(base_path), str(trash_path))` succeeds
Renamed(f, m) == rename(f, BasePath(m), TrashPath(m))

\* variant of Propagate for a loop that swallows the exception and goes on
PropagateSwallowed(continuation) == continuation

\* nothing in fix_mismatches or the dispatch functions catches an exception:
\* a raise ends the call instead of going on at `continuation`
Propagate(continuation) == "raised"

DispatchFunctions == {"do_index_missing", "do_update_locations",
                      "do_trash_archived", "do_trash_missing"}

DefaultArgs == [index_missing |-> FALSE, trash_missing |-> FALSE,
                trash_archived |-> FALSE, update_locations |-> FALSE,
                min_trash_age_hours |-> DefaultMinTrashAgeHours, pre_fix |-> FALSE]

(* ------------------------------- state --------------------------------- *)

VARIABLES
    index,        \* DatasetPathIndex: [datasets, locations]
    fs,           \* the filesystem: path -> content, Dir or Absent
    now,          \* the last reading of datetime.utcnow()
    pc,           \* per caller: position in the code
    entry,        \* per caller: the function it called from outside
    args,         \* per caller: the keyword arguments of fix_mismatches
    cur,          \* per caller: the `mismatch` being handled
    consumed,     \* per caller: mismatches taken from the iterable
    preFixCount,  \* per caller: calls of pre_fix made
    lastPreFix,   \* per caller: argument of the last pre_fix call
    err,          \* per caller: the exception raised, or "none"
    pre,          \* per caller: index and filesystem when `mismatch` was taken
    lastLog,      \* per caller: the last event sent to _LOG
    trashCaller,  \* per caller: the dispatch function that called _trash
    start,        \* per caller: index and filesystem when its call began
    indexCalls,   \* per caller: the index mutations it made that returned
    mutations     \* per caller: index methods called for the current mismatch

vars == <<index, fs, now, pc, entry, args, cur, consumed, preFixCount,
          lastPreFix, err, pre, lastLog, trashCaller, start, indexCalls,
          mutations>>

shared == <<index, fs, now>>

InitIndexes ==
    { [datasets |-> {}, locations |-> {}],
      [datasets |-> {"d1", "d2"},
       locations |-> {<<"d1", "file:///data/a">>, <<"d1", "file:///data/b">>,
                      <<"d2", "file:///data/b">>}] }

InitFs ==
    { f \in [Paths -> Contents \cup {Absent, Dir}] :
        /\ f["/data/a"] \in {Absent, "bytes-a"}
        /\ f["/data/b"] = "bytes-b"
        /\ f[TrashRoot] \in {Absent, Dir}
        /\ f["/data/.trash/a"] \in {Absent, "bytes-old"}
        /\ f["/data/.trash/b"] = Absent
        /\ (f[TrashRoot] = Absent => f["/data/.trash/a"] = Absent) }

Init ==
    /\ index \in InitIndexes
    /\ fs \in InitFs
    /\ now = 1
    /\ pc = [p \in Procs |-> "idle"]
    /\ entry = [p \in Procs |-> "none"]
    /\ args = [p \in Procs |-> DefaultArgs]
    /\ cur = [p \in Procs |-> NoMismatch]
    /\ consumed = [p \in Procs |-> 0]
    /\ preFixCount = [p \in Procs |-> 0]
    /\ lastPreFix = [p \in Procs |-> NoMismatch]
    /\ err = [p \in Procs |-> "none"]
    /\ pre = [p \in Procs |-> [index |-> index, fs |-> fs]]
    /\ lastLog = [p \in Procs |-> "none"]
    /\ trashCaller = [p \in Procs |-> "none"]
    /\ start = [p \in Procs |-> [index |-> index, fs |-> fs]]
    /\ indexCalls = [p \in Procs |-> {}]
    /\ mutations = [p \in Procs |-> 0]

(* ------------------------------ helpers -------------------------------- *)

\* variant of ReturnTo for a loop that registers datasets before it reconciles
\* locations
ReturnToIndexFirst(p, fn) ==
    IF entry[p] # "fix_mismatches" THEN "done"
    ELSE IF fn = "do_update_locations" THEN "trash_archived"
    ELSE IF fn \in {"do_index_missing", "do_trash_missing"} THEN "update_locations"
    ELSE "next"

\* where a dispatch function returns to
ReturnTo(p, fn) ==
    IF entry[p] # "fix_mismatches" THEN "done"
    ELSE IF fn = "do_update_locations" THEN "missing"
    ELSE IF fn \in {"do_index_missing", "do_trash_missing"} THEN "trash_archived"
    ELSE "next"

Goto(p, label) == pc' = [pc EXCEPT ![p] = label]

\* an exception of type e leaves the statement that would have gone on at label
Raise(p, e, label) ==
    /\ pc' = [pc EXCEPT ![p] = Propagate(label)]
    /\ err' = [err EXCEPT ![p] = e]

(* ------------------------- fix_mismatches ------------------------------ *)

\* the call of fix_mismatches(mismatches, index, ...) and its configuration check
CallFixMismatches(p) ==
    /\ pc[p] = "idle"
    /\ \E im, tm, ta, ul, pf \in BOOLEAN, h \in MinAges :
         LET a == [index_missing |-> im, trash_missing |-> tm, trash_archived |-> ta,
                   update_locations |-> ul, min_trash_age_hours |-> h, pre_fix |-> pf]
         IN  /\ args' = [args EXCEPT ![p] = a]
             /\ IF ConfigConflict(a)
                THEN Raise(p, "RuntimeError", "next")
                ELSE Goto(p, "next") /\ UNCHANGED err
    /\ entry' = [entry EXCEPT ![p] = "fix_mismatches"]
    /\ pre' = [pre EXCEPT ![p] = [index |-> index, fs |-> fs]]
    /\ start' = [start EXCEPT ![p] = [index |-> index, fs |-> fs]]
    /\ UNCHANGED <<shared, cur, consumed, preFixCount, lastPreFix, lastLog, trashCaller, indexCalls, mutations>>

\* `for mismatch in mismatches:` takes the next mismatch and logs mismatch.found
TakeMismatch(p) ==
    /\ pc[p] = "next"
    /\ consumed[p] < MaxMismatches
    /\ \E m \in Mismatches : cur' = [cur EXCEPT ![p] = m]
    /\ consumed' = [consumed EXCEPT ![p] = @ + 1]
    /\ mutations' = [mutations EXCEPT ![p] = 0]
    /\ lastLog' = [lastLog EXCEPT ![p] = "mismatch.found"]
    /\ pre' = [pre EXCEPT ![p] = [index |-> index, fs |-> fs]]
    /\ Goto(p, "pre_fix")
    /\ UNCHANGED <<shared, entry, args, preFixCount, lastPreFix, err, trashCaller, start, indexCalls>>

\* `for mismatch in mismatches:` finds the iterable exhausted; fix_mismatches returns
Exhausted(p) ==
    /\ pc[p] = "next"
    /\ Goto(p, "done")
    /\ UNCHANGED <<shared, entry, args, cur, consumed, preFixCount, lastPreFix,
                   err, pre, lastLog, trashCaller, start, indexCalls, mutations>>

\* `if pre_fix: pre_fix(mismatch)`; the callback may raise
PreFix(p) ==
    /\ pc[p] = "pre_fix"
    /\ IF args[p].pre_fix
       THEN /\ preFixCount' = [preFixCount EXCEPT ![p] = @ + 1]
            /\ lastPreFix' = [lastPreFix EXCEPT ![p] = cur[p]]
            /\ \E raises \in BOOLEAN :
                 IF raises THEN Raise(p, "PreFixError", "update_locations")
                 ELSE Goto(p, "update_locations") /\ UNCHANGED err
       ELSE /\ Goto(p, "update_locations")
            /\ UNCHANGED <<preFixCount, lastPreFix, err>>
    /\ UNCHANGED <<shared, entry, args, cur, consumed, pre, lastLog, trashCaller, start, indexCalls, mutations>>

\* `if update_locations: do_update_locations(mismatch, index)`
UpdateLocations(p) ==
    /\ pc[p] = "update_locations"
    /\ Goto(p, IF UpdateLocationsEnabled(args[p]) THEN "do_update_locations" ELSE "missing")
    /\ UNCHANGED <<shared, entry, args, cur, consumed, preFixCount, lastPreFix,
                   err, pre, lastLog, trashCaller, start, indexCalls, mutations>>

\* `if index_missing: do_index_missing(mismatch, index)`
\* `elif trash_missing: do_trash_missing(mismatch)`
Missing(p) ==
    /\ pc[p] = "missing"
    /\ IF args[p].index_missing
       THEN Goto(p, "do_index_missing") /\ UNCHANGED err
       ELSE IF args[p].trash_missing
       THEN IF CallBinds(TrashMissingCallArgs, TrashMissingParams)
            THEN Goto(p, "do_trash_missing") /\ UNCHANGED err
            ELSE Raise(p, "TypeError", "trash_archived")
       ELSE Goto(p, "trash_archived") /\ UNCHANGED err
    /\ UNCHANGED <<shared, entry, args, cur, consumed, preFixCount, lastPreFix,
                   pre, lastLog, trashCaller, start, indexCalls, mutations>>

\* `if trash_archived:` log mismatch.trash, `do_trash_archived(mismatch, index, ...)`
TrashArchived(p) ==
    /\ pc[p] = "trash_archived"
    /\ IF TrashArchivedEnabled(args[p])
       THEN /\ lastLog' = [lastLog EXCEPT ![p] = "mismatch.trash"]
            /\ Goto(p, "do_trash_archived")
       ELSE /\ Goto(p, "next")
            /\ UNCHANGED lastLog
    /\ UNCHANGED <<shared, entry, args, cur, consumed, preFixCount, lastPreFix,
                   err, pre, trashCaller, start, indexCalls, mutations>>

(* ----------------------- the dispatch functions ------------------------ *)

\* one of the dispatch functions called directly, with all its parameters
CallDispatch(p) ==
    /\ pc[p] = "idle"
    /\ \E fn \in DispatchFunctions, m \in Mismatches, h \in MinAges :
         /\ entry' = [entry EXCEPT ![p] = fn]
         /\ cur' = [cur EXCEPT ![p] = m]
         /\ args' = [args EXCEPT ![p] = [DefaultArgs EXCEPT !.min_trash_age_hours = h]]
         /\ Goto(p, fn)
    /\ pre' = [pre EXCEPT ![p] = [index |-> index, fs |-> fs]]
    /\ start' = [start EXCEPT ![p] = [index |-> index, fs |-> fs]]
    /\ UNCHANGED <<shared, consumed, preFixCount, lastPreFix, err, lastLog, trashCaller, indexCalls, mutations>>

\* do_index_missing: index.add_dataset for DatasetNotIndexed, `pass` otherwise;
\* the index call either applies the mutation or raises
DoIndexMissingBody(p) ==
    /\ pc[p] = "do_index_missing"
    /\ IF IndexMissingRegistered(cur[p])
       THEN \E ok \in BOOLEAN :
              IF ok
              THEN /\ index' = DoIndexMissing(cur[p], index)
                   /\ indexCalls' = [indexCalls EXCEPT ![p] = @ \cup {IndexCall(cur[p])}]
                   /\ Goto(p, ReturnTo(p, "do_index_missing"))
                   /\ UNCHANGED err
              ELSE /\ Raise(p, "IndexError", ReturnTo(p, "do_index_missing"))
                   /\ UNCHANGED <<index, indexCalls>>
       ELSE /\ index' = DoIndexMissing(cur[p], index)
            /\ Goto(p, ReturnTo(p, "do_index_missing"))
            /\ UNCHANGED <<err, indexCalls>>
    /\ mutations' = [mutations EXCEPT ![p] = IF IndexMissingRegistered(cur[p]) THEN @ + 1 ELSE @]
    /\ UNCHANGED <<fs, now, entry, args, cur, consumed, preFixCount, lastPreFix,
                   pre, lastLog, trashCaller, start>>

\* do_update_locations: index.remove_location for LocationMissingOnDisk,
\* index.add_location for LocationNotIndexed, `pass` otherwise
DoUpdateLocationsBody(p) ==
    /\ pc[p] = "do_update_locations"
    /\ IF UpdateLocationsRegistered(cur[p])
       THEN \E ok \in BOOLEAN :
              IF ok
              THEN /\ index' = DoUpdateLocations(cur[p], index)
                   /\ indexCalls' = [indexCalls EXCEPT ![p] = @ \cup {IndexCall(cur[p])}]
                   /\ Goto(p, ReturnTo(p, "do_update_locations"))
                   /\ UNCHANGED err
              ELSE /\ Raise(p, "IndexError", ReturnTo(p, "do_update_locations"))
                   /\ UNCHANGED <<index, indexCalls>>
       ELSE /\ index' = DoUpdateLocations(cur[p], index)
            /\ Goto(p, ReturnTo(p, "do_update_locations"))
            /\ UNCHANGED <<err, indexCalls>>
    /\ mutations' = [mutations EXCEPT ![p] = IF UpdateLocationsRegistered(cur[p]) THEN @ + 1 ELSE @]
    /\ UNCHANGED <<fs, now, entry, args, cur, consumed, preFixCount, lastPreFix,
                   pre, lastLog, trashCaller, start>>

\* do_trash_archived: the age check, the existence check, then _trash
DoTrashArchivedBody(p) ==
    /\ pc[p] = "do_trash_archived"
    /\ IF ~TrashArchivedRegistered(cur[p])
       THEN /\ Goto(p, ReturnTo(p, "do_trash_archived"))
            /\ UNCHANGED <<now, lastLog, trashCaller>>
       ELSE \E t \in ClockReadings :
              /\ t >= now
              /\ now' = t
              /\ IF TooYoung(cur[p], t, args[p].min_trash_age_hours)
                 THEN /\ lastLog' = [lastLog EXCEPT ![p] = "do_trash_archived.too_young"]
                      /\ Goto(p, ReturnTo(p, "do_trash_archived"))
                      /\ UNCHANGED trashCaller
                 ELSE IF LocalPathMissing(fs, cur[p])
                 THEN /\ lastLog' = [lastLog EXCEPT ![p] = "do_trash_archived.not_exist"]
                      /\ Goto(p, ReturnTo(p, "do_trash_archived"))
                      /\ UNCHANGED trashCaller
                 ELSE /\ trashCaller' = [trashCaller EXCEPT ![p] = "do_trash_archived"]
                      /\ Goto(p, "_trash")
                      /\ UNCHANGED lastLog
    /\ UNCHANGED <<index, fs, entry, args, cur, consumed, preFixCount, lastPreFix,
                   err, pre, start, indexCalls, mutations>>

\* do_trash_missing: the existence check, then _trash
DoTrashMissingBody(p) ==
    /\ pc[p] = "do_trash_missing"
    /\ IF ~TrashMissingRegistered(cur[p])
       THEN /\ Goto(p, ReturnTo(p, "do_trash_missing"))
            /\ UNCHANGED <<lastLog, trashCaller>>
       ELSE IF LocalPathMissing(fs, cur[p])
       THEN /\ lastLog' = [lastLog EXCEPT ![p] = "do_trash_missing.not_exist"]
            /\ Goto(p, ReturnTo(p, "do_trash_missing"))
            /\ UNCHANGED trashCaller
       ELSE /\ trashCaller' = [trashCaller EXCEPT ![p] = "do_trash_missing"]
            /\ Goto(p, "_trash")
            /\ UNCHANGED lastLog
    /\ UNCHANGED <<shared, entry, args, cur, consumed, preFixCount, lastPreFix,
                   err, pre, start, indexCalls, mutations>>

(* ------------------------------- _trash -------------------------------- *)

\* _trash: resolve the paths, log "trashing", `if not trash_path.parent.exists():`
Trash(p) ==
    /\ pc[p] = "_trash"
    /\ lastLog' = [lastLog EXCEPT ![p] = "trashing"]
    /\ Goto(p, IF exists(fs, parent(TrashPath(cur[p]))) THEN "rename" ELSE "makedirs")
    /\ UNCHANGED <<shared, entry, args, cur, consumed, preFixCount, lastPreFix,
                   err, pre, trashCaller, start, indexCalls, mutations>>

\* `os.makedirs(str(trash_path.parent))`: raises when the directory exists by now,
\* or when the filesystem refuses
MakeDirs(p) ==
    /\ pc[p] = "makedirs"
    /\ IF exists(fs, parent(TrashPath(cur[p])))
       THEN Raise(p, "OSError", "rename") /\ UNCHANGED fs
       ELSE \E ok \in BOOLEAN :
              IF ok
              THEN /\ fs' = makedirs(fs, parent(TrashPath(cur[p])))
                   /\ Goto(p, "rename")
                   /\ UNCHANGED err
              ELSE Raise(p, "OSError", "rename") /\ UNCHANGED fs
    /\ UNCHANGED <<index, now, entry, args, cur, consumed, preFixCount, lastPreFix,
                   pre, lastLog, trashCaller, start, indexCalls, mutations>>

\* `os.rename(str(base_path), str(trash_path))`: raises when base_path is gone or
\* the filesystem refuses (permission, cross-device, destination exists); over an
\* existing file POSIX replaces the destination, other platforms raise
Rename(p) ==
    /\ pc[p] = "rename"
    /\ IF ~exists(fs, BasePath(cur[p]))
       THEN Raise(p, "OSError", ReturnTo(p, trashCaller[p])) /\ UNCHANGED fs
       ELSE \E ok \in BOOLEAN :
              IF ok
              THEN /\ fs' = Renamed(fs, cur[p])
                   /\ Goto(p, ReturnTo(p, trashCaller[p]))
                   /\ UNCHANGED err
              ELSE Raise(p, "OSError", ReturnTo(p, trashCaller[p])) /\ UNCHANGED fs
    /\ UNCHANGED <<index, now, entry, args, cur, consumed, preFixCount, lastPreFix,
                   pre, lastLog, trashCaller, start, indexCalls, mutations>>

(* ---------------------------- specification ---------------------------- *)

Step(p) ==
    \/ CallFixMismatches(p)
    \/ TakeMismatch(p)
    \/ Exhausted(p)
    \/ PreFix(p)
    \/ UpdateLocations(p)
    \/ Missing(p)
    \/ TrashArchived(p)
    \/ CallDispatch(p)
    \/ DoIndexMissingBody(p)
    \/ DoUpdateLocationsBody(p)
    \/ DoTrashArchivedBody(p)
    \/ DoTrashMissingBody(p)
    \/ Trash(p)
    \/ MakeDirs(p)
    \/ Rename(p)

Next == \E p \in Runners : Step(p)

Spec == Init /\ [][Next]_vars

(* ------------------------- notions the claims use ---------------------- *)

InFixMismatches(p) == entry[p] = "fix_mismatches"

LocalPath(m) == uri_to_local_path(m.uri)

\* the dataset's content is at trash_path and no longer at base_path
Moved(p) ==
    /\ fs[BasePath(cur[p])] = Absent
    /\ fs[TrashPath(cur[p])] = pre[p].fs[BasePath(cur[p])]

\* do_trash_archived has run to its end on an ArchivedDatasetOnDisk mismatch
TrashArchivedFinished(p) ==
    /\ cur[p].kind = "ArchivedDatasetOnDisk"
    /\ \/ entry[p] = "do_trash_archived" /\ pc[p] \in {"done", "raised"}
       \/ /\ InFixMismatches(p)
          /\ args[p].trash_archived
          /\ \/ pc[p] \in {"next", "done"}
             \/ pc[p] = "raised" /\ err[p] = "OSError"

(* ------------------------------- C1 ------------------------------------ *)

\* C1: fix_mismatches called with index_missing and trash_missing both true raises
\* the configuration error before anything else: no mismatch is taken from the
\* iterable, pre_fix is never called, and index and filesystem are as at the call.
C1_ConfigErrorBeforeAnyMismatch ==
    \A p \in Procs :
      (InFixMismatches(p) /\ args[p].index_missing /\ args[p].trash_missing) =>
        /\ pc[p] = "raised"
        /\ err[p] = "RuntimeError"
        /\ consumed[p] = 0
        /\ cur[p] = NoMismatch
        /\ preFixCount[p] = 0
        /\ indexCalls[p] = {}
        /\ index = start[p].index
        /\ fs = start[p].fs

C1_Witness ==
    \E p \in Procs :
      /\ InFixMismatches(p)
      /\ args[p].index_missing /\ args[p].trash_missing
      /\ err[p] = "RuntimeError"

(* ------------------------------- C2 ------------------------------------ *)

C3_BoundaryIsTooYoung ==
    \A p \in Procs :
      (/\ TrashArchivedFinished(p)
       /\ pc[p] # "raised"
       /\ exists(pre[p].fs, LocalPath(cur[p]))
       /\ ArchivedTime(cur[p].dataset) = now - args[p].min_trash_age_hours) =>
        /\ lastLog[p] = "do_trash_archived.too_young"
        /\ fs = pre[p].fs

(* ------------------------------- C4 ------------------------------------ *)

\* C4: with trash_missing=true and index_missing=false the run raises nothing of
\* its own (only a collaborator can fail), and once the missing-data step of a
\* DatasetNotIndexed mismatch is over its files are in the trash if the path
\* existed and the filesystem is untouched if it did not.
C4_TrashMissingRetiresUnindexed ==
    \A p \in Procs :
      (InFixMismatches(p) /\ args[p].trash_missing /\ ~args[p].index_missing) =>
        /\ pc[p] = "raised" => err[p] \in {"PreFixError", "IndexError", "OSError"}
        /\ (/\ cur[p].kind = "DatasetNotIndexed"
            /\ pc[p] \in {"trash_archived", "do_trash_archived", "next", "done"}) =>
             IF exists(pre[p].fs, LocalPath(cur[p]))
             THEN Moved(p)
             ELSE fs = pre[p].fs

(* ------------------------------- C5 ------------------------------------ *)

\* whether dispatch function fn has an implementation registered for m's kind
RegisteredFor(fn, m) ==
    IF fn = "do_index_missing" THEN IndexMissingRegistered(m)
    ELSE IF fn = "do_update_locations" THEN UpdateLocationsRegistered(m)
    ELSE IF fn = "do_trash_archived" THEN TrashArchivedRegistered(m)
    ELSE TrashMissingRegistered(m)

\* C5: whenever one of the four dispatch functions runs on a mismatch of a kind
\* it has no registered implementation for, it returns to its caller without
\* raising, and the index and the filesystem are not changed.
C5_UnregisteredKindIsNoOp ==
    [][\A p \in Procs :
         (/\ pc[p] \in DispatchFunctions
          /\ ~RegisteredFor(pc[p], cur[p])
          /\ pc'[p] # pc[p]) =>
           /\ pc'[p] = ReturnTo(p, pc[p])
           /\ err'[p] = err[p]
           /\ index' = index
           /\ indexCalls'[p] = indexCalls[p]
           /\ fs' = fs]_vars

C5_Witness ==
    \E p \in Procs :
      /\ entry[p] \in DispatchFunctions
      /\ ~RegisteredFor(entry[p], cur[p])
      /\ pc[p] = "done"
      /\ err[p] = "none"
      /\ index = start[p].index
      /\ fs = start[p].fs

(* ------------------------------- C6 ------------------------------------ *)

\* C6: when the retire operation has run to its end, the dataset that was at
\* base_path is not there any more, trash_path holds exactly the content that was
\* at base_path, and no other dataset path has changed.
C6_RetireMovesContent ==
    \A p \in Procs :
      (lastLog[p] = "trashing" /\ pc[p] \notin {"makedirs", "rename", "raised"}) =>
        LET base == BasePath(cur[p])
            trash == TrashPath(cur[p])
        IN  /\ pre[p].fs[base] # Absent
            /\ fs[base] = Absent
            /\ fs[trash] # Absent
            /\ fs[trash] = pre[p].fs[base]
            /\ fs[parent(trash)] = Dir
            /\ \A q \in Paths \ {base, trash, parent(trash)} : fs[q] = pre[p].fs[q]

C6_Witness ==
    \E p \in Procs :
      /\ lastLog[p] = "trashing"
      /\ pc[p] \in {"next", "done"}
      /\ pre[p].fs[BasePath(cur[p])] \in Contents
      /\ Moved(p)

(* ------------------------------- C7 ------------------------------------ *)

\* C7: do_trash_missing and do_trash_archived on a dataset whose path does not
\* exist do nothing: they raise no error, never enter the retire operation, create
\* no trash directory and move no file.
C7_MissingPathIsNoOp ==
    \A p \in Procs :
      /\ (/\ entry[p] \in {"do_trash_missing", "do_trash_archived"}
          /\ RegisteredFor(entry[p], cur[p])
          /\ ~exists(start[p].fs, LocalPath(cur[p]))) =>
            /\ pc[p] \in {entry[p], "done"}
            /\ err[p] = "none"
            /\ fs = start[p].fs
            /\ index = start[p].index
            /\ pc[p] = "done" =>
                 lastLog[p] \in {"do_trash_missing.not_exist",
                                 "do_trash_archived.not_exist",
                                 "do_trash_archived.too_young"}
      /\ (/\ InFixMismatches(p)
          /\ args[p].trash_archived
          /\ cur[p].kind = "ArchivedDatasetOnDisk"
          /\ ~exists(pre[p].fs, LocalPath(cur[p]))) =>
            /\ pc[p] \notin {"_trash", "makedirs", "rename"}
            /\ err[p] # "OSError"
            /\ fs = pre[p].fs

C7_Witness ==
    \E p \in Procs :
      /\ entry[p] = "do_trash_missing"
      /\ cur[p].kind = "DatasetNotIndexed"
      /\ ~exists(start[p].fs, LocalPath(cur[p]))
      /\ pc[p] = "done"
      /\ lastLog[p] = "do_trash_missing.not_exist"
      /\ fs[TrashRoot] = Absent

(* ------------------------------- C8 ------------------------------------ *)

\* do_update_locations has returned for the caller's current mismatch
AfterUpdateLocations(p) ==
    \/ entry[p] = "do_update_locations" /\ pc[p] = "done"
    \/ /\ InFixMismatches(p)
       /\ args[p].update_locations
       /\ cur[p] # NoMismatch
       /\ \/ pc[p] \in {"missing", "do_index_missing", "do_trash_missing",
                        "trash_archived", "do_trash_archived", "_trash",
                        "makedirs", "rename", "next", "done"}
          \/ pc[p] = "raised" /\ err[p] \in {"TypeError", "OSError"}

\* C8: once do_update_locations has returned, the uri of a LocationNotIndexed
\* mismatch is among the index's locations of its dataset and the uri of a
\* LocationMissingOnDisk mismatch is not; every other (dataset, uri) location and
\* the set of datasets are as they were before the mismatch.
C8_UpdateLocationsSetsLocation ==
    \A p \in Procs :
      (AfterUpdateLocations(p) /\ UpdateLocationsRegistered(cur[p])) =>
        LET loc == <<cur[p].dataset, cur[p].uri>>
        IN  /\ cur[p].kind = "LocationNotIndexed" => loc \in index.locations
            /\ cur[p].kind = "LocationMissingOnDisk" => loc \notin index.locations
            /\ index.locations \ {loc} = pre[p].index.locations \ {loc}
            /\ index.datasets = pre[p].index.datasets

C8_Witness ==
    \E p \in Procs :
      /\ AfterUpdateLocations(p)
      /\ InFixMismatches(p)
      /\ cur[p].kind = "LocationMissingOnDisk"
      /\ <<cur[p].dataset, cur[p].uri>> \in pre[p].index.locations
      /\ <<cur[p].dataset, cur[p].uri>> \notin index.locations
      /\ index.locations # {}

(* ------------------------------- C9 ------------------------------------ *)

AddDatasetCalls(p) == {c \in indexCalls[p] : c.op = "add_dataset"}

\* C9 as stated: when fix_mismatches with index_missing=true has completed on a
\* sequence containing DatasetNotIndexed{D, U}, the index has D registered at U and
\* the files at U are where they were.
C9_IndexedAndOnDiskAtEnd ==
    \A p \in Procs :
      (InFixMismatches(p) /\ args[p].index_missing /\ pc[p] = "done") =>
        \A c \in AddDatasetCalls(p) :
          /\ c.dataset \in index.datasets
          /\ <<c.dataset, c.uri>> \in index.locations
          /\ fs[uri_to_local_path(c.uri)] = start[p].fs[uri_to_local_path(c.uri)]

\* C9 amended: when fix_mismatches with index_missing=true has handled
\* DatasetNotIndexed{D, U}, the index has D registered at U and handling that
\* mismatch has left the filesystem as it was; for the rest of the run D stays a
\* dataset of the index, location U stays unless update_locations removed it for
\* a LocationMissingOnDisk{D, U}, and the files at U stay unless trash_archived
\* retired them.
C9_IndexedWhenHandled ==
    \A p \in Procs :
      (InFixMismatches(p) /\ args[p].index_missing) =>
        /\ (/\ cur[p].kind = "DatasetNotIndexed"
            /\ pc[p] \in {"trash_archived", "do_trash_archived", "next", "done"}) =>
              /\ cur[p].dataset \in index.datasets
              /\ <<cur[p].dataset, cur[p].uri>> \in index.locations
              /\ [op |-> "add_dataset", dataset |-> cur[p].dataset, uri |-> cur[p].uri]
                   \in indexCalls[p]
              /\ fs = pre[p].fs
        /\ \A c \in AddDatasetCalls(p) :
              /\ c.dataset \in index.datasets
              /\ \/ <<c.dataset, c.uri>> \in index.locations
                 \/ /\ args[p].update_locations
                    /\ [c EXCEPT !.op = "remove_location"] \in indexCalls[p]
              /\ \/ fs[uri_to_local_path(c.uri)] = start[p].fs[uri_to_local_path(c.uri)]
                 \/ /\ args[p].trash_archived
                    /\ fs[uri_to_local_path(c.uri)] = Absent
                    /\ fs[get_trash_path(uri_to_local_path(c.uri))]
                         = start[p].fs[uri_to_local_path(c.uri)]

C9_Witness ==
    \E p \in Procs :
      /\ InFixMismatches(p)
      /\ args[p].index_missing
      /\ pc[p] = "done"
      /\ cur[p].kind = "DatasetNotIndexed"
      /\ cur[p].dataset \notin start[p].index.datasets
      /\ cur[p].dataset \in index.datasets
      /\ <<cur[p].dataset, cur[p].uri>> \in index.locations
      /\ fs[LocalPath(cur[p])] \in Contents

(* ------------------------------- C10 ----------------------------------- *)

\* an index mutation or a filesystem call failed inside fix_mismatches
CollaboratorFailure(p) == InFixMismatches(p) /\ err[p] \in {"IndexError", "OSError"}

\* C10: when a collaborator fails on the k-th mismatch, fix_mismatches is over:
\* the index and the dataset paths are as the first k-1 mismatches left them, and
\* from then on no mismatch is taken, pre_fix is not called and neither the index
\* nor the filesystem is touched.
C10_AbortsOnCollaboratorFailure ==
    /\ [](\A p \in Procs :
            CollaboratorFailure(p) =>
              /\ pc[p] = "raised"
              /\ consumed[p] >= 1
              /\ preFixCount[p] <= consumed[p]
              /\ index = pre[p].index
              /\ \A q \in Paths \ {TrashRoot} : fs[q] = pre[p].fs[q])
    /\ [][\A p \in Procs :
            CollaboratorFailure(p) =>
              /\ pc'[p] = pc[p]
              /\ consumed'[p] = consumed[p]
              /\ cur'[p] = cur[p]
              /\ preFixCount'[p] = preFixCount[p]
              /\ indexCalls'[p] = indexCalls[p]
              /\ index' = index
              /\ fs' = fs]_vars

C10_Witness ==
    \E p \in Procs :
      /\ CollaboratorFailure(p)
      /\ pc[p] = "raised"
      /\ consumed[p] = 2
      /\ pre[p].index # start[p].index \/ pre[p].fs # start[p].fs
      /\ index = pre[p].index

(* ------------------------------- C11 ----------------------------------- *)

\* the step of the per-mismatch order a position of fix_mismatches belongs to
StepOf(l) ==
    IF l = "pre_fix" THEN 1
    ELSE IF l \in {"update_locations", "do_update_locations"} THEN 2
    ELSE IF l \in {"missing", "do_index_missing", "do_trash_missing"} THEN 3
    ELSE IF l \in {"trash_archived", "do_trash_archived"} THEN 4
    ELSE IF l \in {"_trash", "makedirs", "rename"} THEN 5
    ELSE 6

\* C11: inside fix_mismatches every mismatch goes through the steps in one order:
\* pre_fix, location reconciliation, index registration or retirement of
\* unindexed data (never both), archived-data retirement.  pre_fix is called only
\* in the first step, the index is changed only in the second and third, the
\* filesystem only while retiring, and the next mismatch's pre_fix step begins only
\* when the loop is back at its head.
C11_FixedStepOrder ==
    /\ [](\A p \in Procs :
            InFixMismatches(p) =>
              /\ pc[p] = "do_update_locations" => args[p].update_locations
              /\ pc[p] = "do_index_missing" => args[p].index_missing
              /\ pc[p] = "do_trash_missing" =>
                   (args[p].trash_missing /\ ~args[p].index_missing)
              /\ pc[p] = "do_trash_archived" => args[p].trash_archived
              /\ (args[p].pre_fix /\ StepOf(pc[p]) \in 2..5) =>
                   (lastPreFix[p] = cur[p] /\ preFixCount[p] = consumed[p]))
    /\ [][\A p \in Procs :
            (InFixMismatches(p) /\ pc'[p] # pc[p]) =>
              /\ \/ StepOf(pc'[p]) > StepOf(pc[p])
                 \/ StepOf(pc'[p]) = StepOf(pc[p]) /\ StepOf(pc[p]) < 6
                 \/ pc[p] = "next" /\ pc'[p] \in {"pre_fix", "done"}
              /\ pc'[p] = "pre_fix" => (pc[p] = "next" /\ consumed'[p] = consumed[p] + 1)
              /\ preFixCount'[p] # preFixCount[p] => StepOf(pc[p]) = 1
              /\ index' # index => StepOf(pc[p]) \in {2, 3}
              /\ fs' # fs => StepOf(pc[p]) = 5
              /\ (StepOf(pc[p]) = 2 /\ StepOf(pc'[p]) > 2 /\ pc'[p] # "raised") =>
                   pc'[p] = "missing"
              /\ (StepOf(pc[p]) = 3 /\ StepOf(pc'[p]) > 3 /\ pc'[p] # "raised") =>
                   pc'[p] = "trash_archived"]_vars

C11_Witness ==
    \E p \in Procs :
      /\ InFixMismatches(p)
      /\ args[p].pre_fix /\ args[p].update_locations
      /\ args[p].index_missing /\ args[p].trash_archived
      /\ consumed[p] = 2
      /\ preFixCount[p] = 2
      /\ pc[p] = "rename"
      /\ pre[p].index # start[p].index

(* ------------------------------- C12 ----------------------------------- *)

\* C12: an exception raised by pre_fix leaves fix_mismatches at once: no remedy
\* has been applied for that mismatch (no index method called, index and
\* filesystem as when the mismatch was taken), and afterwards no mismatch is
\* taken, pre_fix is not called again and nothing is changed.
C12_PreFixFailurePropagates ==
    /\ [](\A p \in Procs :
            err[p] = "PreFixError" =>
              /\ InFixMismatches(p)
              /\ pc[p] = "raised"
              /\ lastPreFix[p] = cur[p]
              /\ preFixCount[p] = consumed[p]
              /\ mutations[p] = 0
              /\ index = pre[p].index
              /\ fs = pre[p].fs)
    /\ [][\A p \in Procs :
            err[p] = "PreFixError" =>
              /\ pc'[p] = pc[p]
              /\ err'[p] = err[p]
              /\ consumed'[p] = consumed[p]
              /\ preFixCount'[p] = preFixCount[p]
              /\ indexCalls'[p] = indexCalls[p]
              /\ index' = index
              /\ fs' = fs]_vars

C12_Witness ==
    \E p \in Procs :
      /\ err[p] = "PreFixError"
      /\ pc[p] = "raised"
      /\ consumed[p] = 2
      /\ pre[p].index # start[p].index
      /\ index = pre[p].index

(* ------------------------------- C13 ----------------------------------- *)

\* C13: the fix of a mismatch is all-or-nothing: when a collaborator call of its
\* remedy fails (an index method, or makedirs / rename inside the retire
\* operation), the index and the filesystem are exactly as they were when the
\* mismatch was taken.
C13_AllOrNothingPerMismatch ==
    \A p \in Procs :
      (CollaboratorFailure(p) /\ pc[p] = "raised") =>
        /\ index = pre[p].index
        /\ fs = pre[p].fs

(* ------------------------------- C14 ----------------------------------- *)

\* the retire operation has been through its rename for the current mismatch
RenameOver(p) == lastLog[p] = "trashing" /\ pc[p] \notin {"makedirs", "rename"}

\* C14: when trash_path is occupied at the time a dataset is retired inside
\* fix_mismatches, the rename fails and the error leaves fix_mismatches; the
\* content that was at trash_path and the content at base_path are both still
\* where they were.
C14_OccupiedTrashPathIsKept ==
    \A p \in Procs :
      (/\ InFixMismatches(p)
       /\ RenameOver(p)
       /\ pre[p].fs[TrashPath(cur[p])] # Absent) =>
        /\ pc[p] = "raised"
        /\ err[p] = "OSError"
        /\ fs[TrashPath(cur[p])] = pre[p].fs[TrashPath(cur[p])]
        /\ fs[BasePath(cur[p])] = pre[p].fs[BasePath(cur[p])]

(* ------------------------------- C15 ----------------------------------- *)

\* C15 as stated: with update_locations enabled, no location mismatch of a dataset
\* is applied to the index after that dataset has been indexed in the same run.
\* (The claim says the same of a dataset retired in the same run.)
C15_NoLocationFixAfterIndexing ==
    \A p \in Procs :
      (/\ InFixMismatches(p)
       /\ args[p].update_locations
       /\ UpdateLocationsRegistered(cur[p])
       /\ pc[p] = "missing"
       /\ mutations[p] = 1) =>
        \A c \in AddDatasetCalls(p) : c.dataset # cur[p].dataset

\* C15 amended: with update_locations enabled, location reconciliation is the
\* first remedy of every mismatch: when fix_mismatches comes to index, trash or
\* retire for a mismatch, do_update_locations has already returned for that same
\* mismatch and nothing else has touched the index or the filesystem since the
\* mismatch was taken.  Across mismatches the order is that of the sequence, so
\* a location mismatch of a dataset indexed by an earlier mismatch is applied too.
C15_LocationsReconciledFirst ==
    \A p \in Procs :
      (InFixMismatches(p) /\ args[p].update_locations) =>
        /\ StepOf(pc[p]) \in 3..5 =>
             IF UpdateLocationsRegistered(cur[p])
             THEN /\ mutations[p] = 1
                  /\ IndexCall(cur[p]) \in indexCalls[p]
                  /\ cur[p].kind = "LocationNotIndexed" =>
                       <<cur[p].dataset, cur[p].uri>> \in index.locations
                  /\ cur[p].kind = "LocationMissingOnDisk" =>
                       <<cur[p].dataset, cur[p].uri>> \notin index.locations
             ELSE pc[p] = "missing" => mutations[p] = 0
        /\ pc[p] = "missing" =>
             /\ index = DoUpdateLocations(cur[p], pre[p].index)
             /\ fs = pre[p].fs
        /\ StepOf(pc[p]) \in 1..2 => (index = pre[p].index /\ fs = pre[p].fs)

C15_Witness ==
    \E p \in Procs :
      /\ InFixMismatches(p)
      /\ args[p].update_locations /\ args[p].index_missing
      /\ pc[p] = "do_index_missing"
      /\ cur[p].kind = "LocationNotIndexed"
      /\ cur[p].dataset \in {c.dataset : c \in AddDatasetCalls(p)}
      /\ <<cur[p].dataset, cur[p].uri>> \notin pre[p].index.locations
      /\ <<cur[p].dataset, cur[p].uri>> \in index.locations

(* ------------------------------- C16 ----------------------------------- *)

\* two fix_mismatches runs against the same index and filesystem, each with
\* trash_archived=True only and each fed the same ArchivedDatasetOnDisk mismatch
ConcurrentCall(p) ==
    /\ CallFixMismatches(p)
    /\ \E h \in MinAges :
         args'[p] = [DefaultArgs EXCEPT !.trash_archived = TRUE, !.min_trash_age_hours = h]

ConcurrentTake(p) ==
    /\ TakeMismatch(p)
    /\ cur'[p].kind = "ArchivedDatasetOnDisk"
    /\ \A q \in Procs : consumed[q] > 0 => cur'[p] = cur[q]

StepRace(p) ==
    \/ ConcurrentCall(p)
    \/ ConcurrentTake(p)
    \/ Exhausted(p)
    \/ PreFix(p)
    \/ UpdateLocations(p)
    \/ Missing(p)
    \/ TrashArchived(p)
    \/ DoTrashArchivedBody(p)
    \/ Trash(p)
    \/ MakeDirs(p)
    \/ Rename(p)

NextRace == \E p \in Procs : StepRace(p)

SpecRace == Init /\ [][NextRace]_vars

\* the paths holding the content c
Holders(f, c) == {l \in Paths : f[l] = c}

\* the content stored at the dataset path of uri u in the initial filesystems
ContentOf(u) == IF u = "file:///data/a" THEN "bytes-a" ELSE "bytes-b"

\* C16: when two concurrent runs retire the same ArchivedDatasetOnDisk path, the
\* dataset's content is at every moment in exactly one place, its base path or
\* its trash path (never lost, never duplicated); of two runs that both passed
\* the existence check for the same path at most one comes out of _trash without
\* an error; and a run that reaches os.rename after the other run has moved the
\* path away aborts with the OSError of rename and changes nothing.
C16_RaceKeepsContentOnce ==
    /\ [](\A u \in Uris :
            /\ Cardinality(Holders(fs, ContentOf(u))) <= 1
            /\ Holders(fs, ContentOf(u)) \subseteq
                 {uri_to_local_path(u), get_trash_path(uri_to_local_path(u))})
    /\ [](\A p, q \in Procs :
            (/\ p # q
             /\ cur[p].uri = cur[q].uri
             /\ RenameOver(p) /\ RenameOver(q)) =>
              \/ (pc[p] = "raised" /\ err[p] = "OSError")
              \/ (pc[q] = "raised" /\ err[q] = "OSError"))
    /\ [][/\ \A u \in Uris :
               Holders(fs, ContentOf(u)) # {} => Holders(fs', ContentOf(u)) # {}
          /\ \A q \in Procs :
               (/\ pc[q] = "rename"
                /\ ~exists(fs, BasePath(cur[q]))
                /\ pc'[q] # pc[q]) =>
                 /\ pc'[q] = "raised"
                 /\ err'[q] = "OSError"
                 /\ fs' = fs]_vars

\* both runs passed the existence check while the path was there; p's rename has
\* succeeded and q stands before its own rename of the path that is gone
C16_Witness ==
    \E p, q \in Procs :
      /\ p # q
      /\ cur[p] = cur[q]
      /\ cur[p].kind = "ArchivedDatasetOnDisk"
      /\ RenameOver(p)
      /\ pc[p] \in {"next", "done"} /\ err[p] = "none"
      /\ pc[q] = "rename" /\ lastLog[q] = "trashing"
      /\ fs[BasePath(cur[p])] = Absent
      /\ fs[TrashPath(cur[p])] = ContentOf(cur[p].uri)

(* ------------------------------- C17 ----------------------------------- *)

\* one fix_mismatches run with trash_archived=True whose sequence repeats one
\* ArchivedDatasetOnDisk mismatch
RepeatCall(p) ==
    /\ CallFixMismatches(p)
    /\ args'[p].trash_archived

TakeSame(p) ==
    /\ TakeMismatch(p)
    /\ cur'[p].kind = "ArchivedDatasetOnDisk"
    /\ consumed[p] >= 1 => cur'[p] = cur[p]

StepRepeat(p) ==
    \/ RepeatCall(p)
    \/ TakeSame(p)
    \/ Exhausted(p)
    \/ PreFix(p)
    \/ UpdateLocations(p)
    \/ Missing(p)
    \/ TrashArchived(p)
    \/ DoIndexMissingBody(p)
    \/ DoUpdateLocationsBody(p)
    \/ DoTrashArchivedBody(p)
    \/ Trash(p)
    \/ MakeDirs(p)
    \/ Rename(p)

NextRepeat == \E p \in Runners : StepRepeat(p)

SpecRepeat == Init /\ [][NextRepeat]_vars

\* the handling of the current mismatch has come to its end without an error
HandledOver(p) == pc[p] \in {"next", "done"} /\ lastLog[p] # "mismatch.found"

\* C17: when the sequence repeats an ArchivedDatasetOnDisk mismatch whose path an
\* earlier occurrence has retired (or found missing), a later occurrence never
\* enters _trash, raises nothing of its own (only a pre_fix callback can raise),
\* leaves the index and the filesystem as the earlier occurrence left them, and,
\* being old enough, ends with do_trash_archived.not_exist.
C17_RepeatedRetireIsSkipped ==
    \A p \in Procs :
      (/\ InFixMismatches(p)
       /\ consumed[p] >= 2
       /\ ~exists(pre[p].fs, LocalPath(cur[p]))) =>
        /\ pc[p] \notin {"_trash", "makedirs", "rename"}
        /\ err[p] \in {"none", "PreFixError"}
        /\ ~args[p].pre_fix => err[p] = "none"
        /\ fs = pre[p].fs
        /\ index = pre[p].index
        /\ HandledOver(p) =>
             /\ lastLog[p] \in {"do_trash_archived.not_exist", "do_trash_archived.too_young"}
             /\ ~TooYoung(cur[p], now, args[p].min_trash_age_hours) =>
                  lastLog[p] = "do_trash_archived.not_exist"

C17_Witness ==
    \E p \in Procs :
      /\ InFixMismatches(p)
      /\ consumed[p] = 2
      /\ exists(start[p].fs, LocalPath(cur[p]))
      /\ ~exists(pre[p].fs, LocalPath(cur[p]))
      /\ pre[p].fs[TrashPath(cur[p])] = start[p].fs[BasePath(cur[p])]
      /\ HandledOver(p)
      /\ lastLog[p] = "do_trash_archived.not_exist"
      /\ err[p] = "none"
      /\ fs = pre[p].fs /\ index = pre[p].index

(* ------------------------------- C18 ----------------------------------- *)

\* fix_mismatches called with every remedy flag at its default
NoRemedy(a) ==
    ~a.index_missing /\ ~a.trash_missing /\ ~a.trash_archived /\ ~a.update_locations

\* C18: with index_missing, trash_missing, trash_archived and update_locations all
\* false, fix_mismatches calls no dispatch function and leaves the index and the
\* filesystem as they were at the call, for every mismatch sequence; a pre_fix
\* callback is still called once for every mismatch taken, with that mismatch,
\* before the next one is taken, and without a callback nothing is called.
C18_DefaultsChangeNothing ==
    \A p \in Procs :
      (InFixMismatches(p) /\ NoRemedy(args[p])) =>
        /\ index = start[p].index
        /\ fs = start[p].fs
        /\ pc[p] \notin DispatchFunctions \cup {"_trash", "makedirs", "rename"}
        /\ err[p] \in {"none", "PreFixError"}
        /\ IF args[p].pre_fix
           THEN /\ pc[p] = "pre_fix" => preFixCount[p] = consumed[p] - 1
                /\ pc[p] # "pre_fix" => preFixCount[p] = consumed[p]
                /\ (pc[p] # "pre_fix" /\ consumed[p] > 0) => lastPreFix[p] = cur[p]
           ELSE preFixCount[p] = 0 /\ err[p] = "none"

C18_Witness ==
    \E p \in Procs :
      /\ InFixMismatches(p) /\ NoRemedy(args[p])
      /\ args[p].pre_fix
      /\ pc[p] = "done" /\ err[p] = "none"
      /\ consumed[p] = MaxMismatches
      /\ preFixCount[p] = MaxMismatches
      /\ cur[p].kind = "ArchivedDatasetOnDisk"
      /\ exists(fs, LocalPath(cur[p]))
      /\ ~TooYoung(cur[p], 73, args[p].min_trash_age_hours)
      /\ index = start[p].index /\ fs = start[p].fs

(* ------------------------------- C19 ----------------------------------- *)

IndexSteps == {"update_locations", "do_update_locations", "missing", "do_index_missing"}

TrashSteps == {"do_trash_missing", "trash_archived", "do_trash_archived",
               "_trash", "makedirs", "rename"}

\* C19: every remedy touches one resource only.  No statement of trash_archived,
\* trash_missing or _trash changes the index, so a retired path keeps its
\* location entry; no statement of index_missing or update_locations changes the
\* filesystem; and for one mismatch at most one index method is called.
C19_OneResourcePerRemedy ==
    /\ [](\A p \in Procs :
            /\ mutations[p] <= 1
            /\ lastLog[p] = "trashing" =>
                 /\ index = pre[p].index
                 /\ mutations[p] = 0)
    /\ [][\A p \in Procs :
            pc'[p] # pc[p] =>
              /\ pc[p] \in TrashSteps => index' = index
              /\ pc[p] \in IndexSteps => fs' = fs]_vars

C19_Witness ==
    \E p \in Procs :
      /\ InFixMismatches(p)
      /\ args[p].update_locations /\ args[p].index_missing /\ args[p].trash_archived
      /\ RenameOver(p) /\ pc[p] = "next" /\ err[p] = "none"
      /\ ~exists(fs, BasePath(cur[p]))
      /\ <<cur[p].dataset, cur[p].uri>> \in index.locations
      /\ index = pre[p].index
      /\ mutations[p] = 0

====
